---- MODULE Spec2Model ----
(***************************************************************************)
(* Model of scripts/quality_checker.py: HealthcareQualityChecker.          *)
(*                                                                         *)
(* The database is the state the five SQL queries read and the audit       *)
(* table the INSERT of log_quality_issue appends to.  Money is counted in  *)
(* whole cents, percentages in hundredths of a percent, dates in days.     *)
(* A nullable column holds <<>> (SQL NULL) or <<v>>.  Columns a query only *)
(* passes through and no code reads (patient_id and provider_id of a       *)
(* claim, provider_name, license_number, license_state) are left out.      *)
(***************************************************************************)
EXTENDS Integers, Sequences, FiniteSets, TLC

VARIABLES
    patient_records,    \* table patient_records, one record per row
    claims,             \* table claims
    claims_line_items,  \* table claims_line_items
    providers,          \* table providers
    current_date,       \* CURRENT_DATE of the database server
    quality_audit_log,  \* table quality_audit_log: the committed INSERTs
    connection,         \* self.connection: "None", "open" or "closed"
    pc,                 \* position of run_all_checks
    check,              \* index in CheckKeys of the check being evaluated
    results,            \* the DataFrame execute_query returned to the check
    row,                \* position of iterrows() in results
    checks,             \* the entries of results['checks'] evaluated so far
    report,             \* what run_all_checks returns; <<>> until it does
    outcome,            \* "running", "returned" or "raised"
    trace               \* every database call of the run, in order

vars == <<patient_records, claims, claims_line_items, providers, current_date,
          quality_audit_log, connection, pc, check, results, row, checks,
          report, outcome, trace>>

db == <<patient_records, claims, claims_line_items, providers, current_date>>

----------------------------------------------------------------------------
(* SQL values *)

NULL == <<>>
IsNull(v) == v = NULL
Val(v) == v[1]

\* SQL's three-valued logic.
SqlTrue == "TRUE"
SqlFalse == "FALSE"
SqlUnknown == "UNKNOWN"

SqlLt(a, b) ==
    IF IsNull(a) \/ IsNull(b) THEN SqlUnknown
    ELSE IF Val(a) < Val(b) THEN SqlTrue ELSE SqlFalse

SqlGt(a, b) == SqlLt(b, a)

SqlAnd(p, q) ==
    IF p = SqlFalse \/ q = SqlFalse THEN SqlFalse
    ELSE IF p = SqlTrue /\ q = SqlTrue THEN SqlTrue ELSE SqlUnknown

SqlOr(p, q) ==
    IF p = SqlTrue \/ q = SqlTrue THEN SqlTrue
    ELSE IF p = SqlFalse /\ q = SqlFalse THEN SqlFalse ELSE SqlUnknown

SqlIsNotNull(v) == IF IsNull(v) THEN SqlFalse ELSE SqlTrue

SqlBool(b) == IF b THEN SqlTrue ELSE SqlFalse

\* A nullable column as the Python value the DataFrame row holds.
PyNone == "<None>"
FromSql(v) == IF IsNull(v) THEN PyNone ELSE Val(v)

Abs(n) == IF n < 0 THEN -n ELSE n

\* a - b, ABS(a), NULL when an operand is NULL
SqlMinus(a, b) == IF IsNull(a) \/ IsNull(b) THEN NULL ELSE <<Val(a) - Val(b)>>
SqlAbs(a) == IF IsNull(a) THEN NULL ELSE <<Abs(Val(a))>>

\* ROUND(n / d * 100, 2) of two amounts, in hundredths of a percent:
\* numeric rounding is half away from zero.
RoundDiv(n, d) ==
    LET q == (2 * Abs(n) + Abs(d)) \div (2 * Abs(d))
    IN  IF (n < 0) = (d < 0) THEN q ELSE -q

\* Every ordering of the finite set S, as sequences without repetition.
Orderings(S) ==
    {f \in [1..Cardinality(S) -> S] :
        \A i, j \in 1..Cardinality(S) : i # j => f[i] # f[j]}

RECURSIVE Join(_, _)
\* sep.join(s) of Python
Join(s, sep) ==
    IF s = <<>> THEN ""
    ELSE IF Len(s) = 1 THEN s[1]
    ELSE s[1] \o sep \o Join(Tail(s), sep)

RECURSIVE SumSeq(_)
SumSeq(s) == IF s = <<>> THEN 0 ELSE s[1] + SumSeq(Tail(s))

Rows(table) == {table[i] : i \in 1..Len(table)}

----------------------------------------------------------------------------
(* check_patient_completeness *)

ArrayRemoveNull(a) ==
    LET kept == SelectSeq(a, LAMBDA v : ~IsNull(v))
    IN  [i \in 1..Len(kept) |-> Val(kept[i])]

\* The missing_fields column: ARRAY_REMOVE(ARRAY[CASE ... END, ...], NULL).
missing_fields(r) ==
    ArrayRemoveNull(<<
        IF IsNull(r.name) THEN <<"name">> ELSE NULL,
        IF IsNull(r.date_of_birth) THEN <<"date_of_birth">> ELSE NULL,
        IF IsNull(r.insurance_id) THEN <<"insurance_id">> ELSE NULL,
        IF IsNull(r.primary_provider) THEN <<"primary_provider">> ELSE NULL,
        IF IsNull(r.contact_phone) /\ IsNull(r.contact_email)
            THEN <<"contact_info">> ELSE NULL >>)

\* The WHERE clause of the completeness query.
completeness_where(r) ==
    /\ r.is_active = TRUE
    /\ \/ IsNull(r.name)
       \/ IsNull(r.date_of_birth)
       \/ IsNull(r.insurance_id)
       \/ IsNull(r.primary_provider)
       \/ (IsNull(r.contact_phone) /\ IsNull(r.contact_email))

\* The query has no ORDER BY: the rows come in any order.
completeness_query ==
    Orderings({[patient_id |-> r.patient_id,
                name |-> r.name,
                date_of_birth |-> r.date_of_birth,
                insurance_id |-> r.insurance_id,
                primary_provider |-> r.primary_provider,
                contact_phone |-> r.contact_phone,
                contact_email |-> r.contact_email,
                missing_fields |-> missing_fields(r)] :
               r \in {p \in Rows(patient_records) : completeness_where(p)}})

\* HIGH from two missing fields on
completeness_severity_from_two(fields) == IF Len(fields) >= 2 THEN "HIGH" ELSE "MEDIUM"

completeness_severity(fields) == IF Len(fields) > 2 THEN "HIGH" ELSE "MEDIUM"

\* The arguments of log_quality_issue for one row.
completeness_issue(r) ==
    [check_type |-> "completeness_check",
     table_name |-> "patient_records",
     record_id |-> r.patient_id,
     issue_type |-> "incomplete_record",
     issue_description |-> "Missing fields: " \o Join(r.missing_fields, ", "),
     severity |-> completeness_severity(r.missing_fields)]

check_patient_completeness(res) ==
    [check_name |-> "Patient Completeness",
     issues_found |-> Len(res),
     details |-> res]

----------------------------------------------------------------------------
(* check_claims_discrepancies *)

\* 0.01 and 1000 of the source, in cents
Tolerance == 1
CriticalThreshold == 100000

\* SUM(cli.line_item_amount) over the joined rows: NULL amounts are skipped,
\* and the sum of no amount is NULL.
SqlSum(items) ==
    LET amounts == SelectSeq(items, LAMBDA i : ~IsNull(i.line_item_amount))
    IN  IF amounts = <<>> THEN NULL
        ELSE <<SumSeq([i \in 1..Len(amounts) |-> Val(amounts[i].line_item_amount)])>>

Coalesce(v, d) == IF IsNull(v) THEN <<d>> ELSE v

\* One row of the CTE claim_line_totals: the claim LEFT JOINed to its items.
claim_line_totals(c) ==
    LET items == SelectSeq(claims_line_items, LAMBDA i : i.claim_id = c.claim_id)
    IN  [claim_id |-> c.claim_id,
         claim_total_amount |-> c.claim_total_amount,
         calculated_total |-> Val(Coalesce(SqlSum(items), 0)),
         line_item_count |-> Len(items)]

discrepancy_amount(t) == SqlAbs(SqlMinus(t.claim_total_amount, <<t.calculated_total>>))

\* the WHERE clause with >= 0.01
discrepancy_where_inclusive(t) ==
    SqlGt(discrepancy_amount(t), <<Tolerance - 1>>) = SqlTrue

discrepancy_where(t) == SqlGt(discrepancy_amount(t), <<Tolerance>>) = SqlTrue

\* ROUND(ABS(..) / NULLIF(claim_total_amount, 0) * 100, 2)
discrepancy_percentage(t) ==
    IF IsNull(t.claim_total_amount) \/ Val(t.claim_total_amount) = 0 THEN NULL
    ELSE <<RoundDiv(Val(discrepancy_amount(t)) * 10000, Val(t.claim_total_amount))>>

\* ORDER BY discrepancy_amount DESC: rows of equal amount come in any order.
discrepancy_query ==
    LET flagged == {t \in {claim_line_totals(c) : c \in Rows(claims)} :
                       discrepancy_where(t)}
        out == {[claim_id |-> t.claim_id,
                 claim_total_amount |-> Val(t.claim_total_amount),
                 calculated_total |-> t.calculated_total,
                 line_item_count |-> t.line_item_count,
                 discrepancy_amount |-> Val(discrepancy_amount(t)),
                 discrepancy_percentage |-> discrepancy_percentage(t)] :
                t \in flagged}
    IN  {o \in Orderings(out) :
            \A i, j \in 1..Len(o) :
                i < j => o[i].discrepancy_amount >= o[j].discrepancy_amount}

discrepancy_severity(amount) ==
    IF amount > CriticalThreshold THEN "CRITICAL" ELSE "HIGH"

Digits2(n) == IF n < 10 THEN "0" \o ToString(n) ELSE ToString(n)

\* f"{x:.2f}" of an amount
Format2f(cents) ==
    (IF cents < 0 THEN "-" ELSE "")
        \o ToString(Abs(cents) \div 100) \o "." \o Digits2(Abs(cents) % 100)

discrepancy_issue(r) ==
    [check_type |-> "discrepancy_check",
     table_name |-> "claims",
     record_id |-> r.claim_id,
     issue_type |-> "amount_mismatch",
     issue_description |->
        "Claim total: $" \o Format2f(r.claim_total_amount)
            \o ", Line items sum: $" \o Format2f(r.calculated_total)
            \o ", Discrepancy: $" \o Format2f(r.discrepancy_amount),
     severity |-> discrepancy_severity(r.discrepancy_amount)]

check_claims_discrepancies(res) ==
    [check_name |-> "Claims Discrepancies",
     issues_found |-> Len(res),
     total_discrepancy |->
        IF Len(res) > 0
            THEN SumSeq([i \in 1..Len(res) |-> res[i].discrepancy_amount])
            ELSE 0,
     details |-> res]

----------------------------------------------------------------------------
(* check_temporal_anomalies *)

\* the CASE with its two branches in the other order
anomaly_type_processing_first(c) ==
    IF SqlLt(c.processing_date, c.submission_date) = SqlTrue
        THEN <<"Processing before submission">>
    ELSE IF SqlLt(c.submission_date, c.service_date) = SqlTrue
        THEN <<"Submission before service">>
    ELSE NULL

\* CASE WHEN ... THEN ... WHEN ... THEN ... END: the first branch whose
\* condition is true, NULL when none is.
anomaly_type(c) ==
    IF SqlLt(c.submission_date, c.service_date) = SqlTrue
        THEN <<"Submission before service">>
    ELSE IF SqlLt(c.processing_date, c.submission_date) = SqlTrue
        THEN <<"Processing before submission">>
    ELSE NULL

temporal_where(c) ==
    SqlOr(SqlLt(c.submission_date, c.service_date),
          SqlAnd(SqlIsNotNull(c.processing_date),
                 SqlLt(c.processing_date, c.submission_date))) = SqlTrue

temporal_query ==
    Orderings({[claim_id |-> c.claim_id,
                service_date |-> c.service_date,
                submission_date |-> c.submission_date,
                processing_date |-> c.processing_date,
                anomaly_type |-> anomaly_type(c)] :
               c \in {x \in Rows(claims) : temporal_where(x)}})

temporal_issue(r) ==
    [check_type |-> "temporal_check",
     table_name |-> "claims",
     record_id |-> r.claim_id,
     issue_type |-> "temporal_anomaly",
     issue_description |-> FromSql(r.anomaly_type),
     severity |-> "HIGH"]

check_temporal_anomalies(res) ==
    [check_name |-> "Temporal Anomalies",
     issues_found |-> Len(res),
     details |-> res]

----------------------------------------------------------------------------
(* check_duplicate_records *)

duplicate_where(p) ==
    ~IsNull(p.name) /\ ~IsNull(p.date_of_birth) /\ p.is_active = TRUE

\* GROUP BY name, date_of_birth
duplicate_keys ==
    {<<p.name, p.date_of_birth>> : p \in {x \in Rows(patient_records) : duplicate_where(x)}}

duplicate_group(k) ==
    {p.patient_id : p \in {x \in Rows(patient_records) :
        duplicate_where(x) /\ <<x.name, x.date_of_birth>> = k}}

\* HAVING COUNT(*) > 1
duplicate_having(k) == Cardinality(duplicate_group(k)) > 1

\* One row per group.  ARRAY_AGG(patient_id) has no ORDER BY: the ids of a
\* group come in any order.
duplicate_rows ==
    LET keys == {k \in duplicate_keys : duplicate_having(k)}
        aggs == {f \in [keys -> UNION {Orderings(duplicate_group(k)) : k \in keys}] :
                    \A k \in keys : f[k] \in Orderings(duplicate_group(k))}
    IN  {{[name |-> Val(k[1]),
           date_of_birth |-> Val(k[2]),
           duplicate_count |-> Cardinality(duplicate_group(k)),
           patient_ids |-> f[k]] : k \in keys} : f \in aggs}

\* ORDER BY duplicate_count DESC: groups of equal size come in any order.
duplicate_query ==
    UNION {{o \in Orderings(rs) :
                \A i, j \in 1..Len(o) :
                    i < j => o[i].duplicate_count >= o[j].duplicate_count} :
           rs \in duplicate_rows}

duplicate_issue(r) ==
    [check_type |-> "duplicate_check",
     table_name |-> "patient_records",
     record_id |-> r.patient_ids[1],
     issue_type |-> "potential_duplicate",
     issue_description |-> "Duplicate patients found: " \o Join(r.patient_ids, ", "),
     severity |-> "MEDIUM"]

\* total_duplicates counting the groups
check_duplicate_records_groups(res) ==
    [check_name |-> "Duplicate Records",
     issues_found |-> Len(res),
     total_duplicates |-> Len(res),
     details |-> res]

check_duplicate_records(res) ==
    [check_name |-> "Duplicate Records",
     issues_found |-> Len(res),
     total_duplicates |->
        IF Len(res) > 0
            THEN SumSeq([i \in 1..Len(res) |-> res[i].duplicate_count])
            ELSE 0,
     details |-> res]

----------------------------------------------------------------------------
(* check_provider_credentials *)

credential_where(p) ==
    SqlAnd(SqlLt(p.license_expiry_date, <<current_date>>),
           SqlBool(p.is_active = TRUE)) = SqlTrue

\* ORDER BY license_expiry_date: rows of equal date come in any order.
credential_query ==
    LET out == {[provider_id |-> p.provider_id,
                 license_expiry_date |-> Val(p.license_expiry_date),
                 days_expired |-> current_date - Val(p.license_expiry_date)] :
                p \in {x \in Rows(providers) : credential_where(x)}}
    IN  {o \in Orderings(out) :
            \A i, j \in 1..Len(o) :
                i < j => o[i].license_expiry_date <= o[j].license_expiry_date}

credential_issue(r) ==
    [check_type |-> "credential_check",
     table_name |-> "providers",
     record_id |-> r.provider_id,
     issue_type |-> "expired_license",
     issue_description |-> "License expired " \o ToString(r.days_expired) \o " days ago",
     severity |-> "CRITICAL"]

check_provider_credentials(res) ==
    [check_name |-> "Provider Credentials",
     issues_found |-> Len(res),
     details |-> res]

----------------------------------------------------------------------------
(* run_all_checks *)

\* the dict literal with the temporal check before the amount check
CheckKeys_swapped ==
    <<"patient_completeness", "temporal_anomalies", "claims_discrepancies",
      "duplicate_records", "provider_credentials">>

\* The dict literal of results['checks']: its values are evaluated, and its
\* keys inserted, in this order.
CheckKeys ==
    <<"patient_completeness", "claims_discrepancies", "temporal_anomalies",
      "duplicate_records", "provider_credentials">>

\* execute_query(query) of the check at position k: every result the
\* database may return for the query.
execute_query(k) ==
    CASE CheckKeys[k] = "patient_completeness" -> completeness_query
      [] CheckKeys[k] = "claims_discrepancies" -> discrepancy_query
      [] CheckKeys[k] = "temporal_anomalies" -> temporal_query
      [] CheckKeys[k] = "duplicate_records" -> duplicate_query
      [] CheckKeys[k] = "provider_credentials" -> credential_query

\* The arguments the check at position k passes to log_quality_issue for r.
log_args(k, r) ==
    CASE CheckKeys[k] = "patient_completeness" -> completeness_issue(r)
      [] CheckKeys[k] = "claims_discrepancies" -> discrepancy_issue(r)
      [] CheckKeys[k] = "temporal_anomalies" -> temporal_issue(r)
      [] CheckKeys[k] = "duplicate_records" -> duplicate_issue(r)
      [] CheckKeys[k] = "provider_credentials" -> credential_issue(r)

\* The dict the check at position k returns.
check_return(k, res) ==
    CASE CheckKeys[k] = "patient_completeness" -> check_patient_completeness(res)
      [] CheckKeys[k] = "claims_discrepancies" -> check_claims_discrepancies(res)
      [] CheckKeys[k] = "temporal_anomalies" -> check_temporal_anomalies(res)
      [] CheckKeys[k] = "duplicate_records" -> check_duplicate_records(res)
      [] CheckKeys[k] = "provider_credentials" -> check_provider_credentials(res)

\* iterrows() walking the DataFrame from its last row
iterrows_reversed(res, i) == res[Len(res) - i + 1]

\* for _, row in results.iterrows(): the row at position i
iterrows(res, i) == res[i]

\* the summary with status FAIL only from the second issue on
summary_late_fail(chks) ==
    LET total_issues == SumSeq([i \in 1..Len(chks) |-> chks[i].value.issues_found])
    IN  [total_issues_found |-> total_issues,
         checks_performed |-> Len(chks),
         status |-> IF total_issues > 1 THEN "FAIL" ELSE "PASS"]

\* results['summary']
summary(chks) ==
    LET total_issues == SumSeq([i \in 1..Len(chks) |-> chks[i].value.issues_found])
    IN  [total_issues_found |-> total_issues,
         checks_performed |-> Len(chks),
         status |-> IF total_issues > 0 THEN "FAIL" ELSE "PASS"]

\* disconnect() that closes nothing
disconnect_noop(conn) == conn

\* disconnect(): close() when self.connection is set
disconnect(conn) == IF conn # "None" THEN "closed" ELSE conn

\* One database call, or the return of a check: the check it belongs to
\* ("" outside the checks), whether it succeeded, whether the connection was
\* open when it was made, and the arguments of an INSERT.
Event(op, ok, issue) ==
    [op |-> op,
     check |-> IF check \in 1..Len(CheckKeys) THEN CheckKeys[check] ELSE "",
     ok |-> ok,
     open |-> connection = "open",
     issue |-> issue]

\* The database fails at most MaxFailedWrites audit writes of a run.
MaxFailedWrites == 1
FailedWrites == Cardinality({i \in 1..Len(trace) : trace[i].op = "insert" /\ ~trace[i].ok})

\* self.connect() succeeds
Connect ==
    /\ pc = "connect"
    /\ connection' = "open"
    /\ trace' = Append(trace, Event("connect", TRUE, NULL))
    /\ check' = 1
    /\ pc' = "query"
    /\ UNCHANGED <<db, quality_audit_log, results, row, checks, report, outcome>>

\* self.connect() raises, before the try block: nothing is closed
ConnectFail ==
    /\ pc = "connect"
    /\ trace' = Append(trace, Event("connect", FALSE, NULL))
    /\ outcome' = "raised"
    /\ pc' = "done"
    /\ UNCHANGED <<db, quality_audit_log, connection, check, results, row,
                   checks, report>>

\* results = self.execute_query(query)
ExecuteQuery ==
    /\ pc = "query"
    /\ \E res \in execute_query(check) :
          results' = res
    /\ row' = 1
    /\ trace' = Append(trace, Event("query", TRUE, NULL))
    /\ pc' = "log"
    /\ UNCHANGED <<db, quality_audit_log, connection, check, checks, report,
                   outcome>>

\* execute_query re-raises: the exception leaves the check and the dict
\* literal of run_all_checks, which has no except clause, for the finally.
ExecuteQueryFail ==
    /\ pc = "query"
    /\ trace' = Append(trace, Event("query", FALSE, NULL))
    /\ outcome' = "raised"
    /\ pc' = "finally"
    /\ UNCHANGED <<db, quality_audit_log, connection, check, results, row,
                   checks, report>>

\* log_quality_issue: the INSERT and the commit succeed
LogIssue ==
    /\ pc = "log"
    /\ row <= Len(results)
    /\ LET issue == log_args(check, iterrows(results, row))
       IN  /\ quality_audit_log' = Append(quality_audit_log, issue)
           /\ trace' = Append(trace, Event("insert", TRUE, <<issue>>))
    /\ row' = row + 1
    /\ UNCHANGED <<db, connection, pc, check, results, checks, report, outcome>>

\* log_quality_issue: the INSERT or the commit raises, rollback() succeeds
LogIssueFail ==
    /\ pc = "log"
    /\ row <= Len(results)
    /\ FailedWrites < MaxFailedWrites
    /\ LET issue == log_args(check, iterrows(results, row))
       IN  trace' = trace \o <<Event("insert", FALSE, <<issue>>),
                              Event("rollback", TRUE, NULL)>>
    /\ row' = row + 1
    /\ UNCHANGED <<db, quality_audit_log, connection, pc, check, results,
                   checks, report, outcome>>

\* log_quality_issue: the INSERT or the commit raises and rollback() raises
\* as well (the server connection is lost): the except clause does not guard
\* it, and the exception leaves the check like a failed query does.
LogIssueRollbackFail ==
    /\ pc = "log"
    /\ row <= Len(results)
    /\ FailedWrites < MaxFailedWrites
    /\ LET issue == log_args(check, iterrows(results, row))
       IN  trace' = trace \o <<Event("insert", FALSE, <<issue>>),
                              Event("rollback", FALSE, NULL)>>
    /\ outcome' = "raised"
    /\ pc' = "finally"
    /\ UNCHANGED <<db, quality_audit_log, connection, check, results, row,
                   checks, report>>

\* The loop of the check is over: it returns its dict, and the dict literal
\* goes on to its next value.
CheckReturn ==
    /\ pc = "log"
    /\ row > Len(results)
    /\ checks' = Append(checks, [key |-> CheckKeys[check],
                                 value |-> check_return(check, results)])
    /\ trace' = Append(trace, Event("return", TRUE, NULL))
    /\ IF check < Len(CheckKeys)
          THEN check' = check + 1 /\ pc' = "query"
          ELSE check' = check /\ pc' = "summary"
    /\ UNCHANGED <<db, quality_audit_log, connection, results, row, report,
                   outcome>>

\* The summary statistics and the return statement.  The timestamp of the
\* report is the clock's and is left out.
Summarize ==
    /\ pc = "summary"
    /\ report' = <<[checks |-> checks, summary |-> summary(checks)]>>
    /\ outcome' = "returned"
    /\ pc' = "finally"
    /\ UNCHANGED <<db, quality_audit_log, connection, check, results, row,
                   checks, trace>>

\* finally: self.disconnect()
Disconnect ==
    /\ pc = "finally"
    /\ connection' = disconnect(connection)
    /\ trace' = IF connection' # connection
                   THEN Append(trace, Event("close", TRUE, NULL))
                   ELSE trace
    /\ pc' = "done"
    /\ UNCHANGED <<db, quality_audit_log, check, results, row, checks, report,
                   outcome>>

Next ==
    \/ Connect
    \/ ConnectFail
    \/ ExecuteQuery
    \/ ExecuteQueryFail
    \/ LogIssue
    \/ LogIssueFail
    \/ LogIssueRollbackFail
    \/ CheckReturn
    \/ Summarize
    \/ Disconnect

----------------------------------------------------------------------------
(* Datasets *)

RECURSIVE SetToSeq(_)
SetToSeq(S) ==
    IF S = {} THEN <<>>
    ELSE LET x == CHOOSE y \in S : TRUE IN <<x>> \o SetToSeq(S \ {x})

\* The tables of at most n rows over S.  A table is a bag of rows (the
\* order a query returns them in is the query's), so one sequence stands
\* for all its permutations.
TablesOf(S, n) ==
    LET q == SetToSeq(S)
    IN  UNION {{[i \in 1..k |-> q[f[i]]] :
                  f \in {g \in [1..k -> 1..Len(q)] :
                            \A i, j \in 1..k : i < j => g[i] <= g[j]}} :
               k \in 0..n}

PatientId(i) == "P" \o ToString(i)
ClaimId(i) == "C" \o ToString(i)
ProviderId(i) == "V" \o ToString(i)

\* Tables of at most n rows whose columns range over the given sets; the
\* primary key of a row is its position.
PatientTables(names, births, insurances, provs, phones, emails, actives, n) ==
    {[i \in 1..Len(t) |->
        [patient_id |-> PatientId(i),
         name |-> t[i].name,
         date_of_birth |-> t[i].date_of_birth,
         insurance_id |-> t[i].insurance_id,
         primary_provider |-> t[i].primary_provider,
         contact_phone |-> t[i].contact_phone,
         contact_email |-> t[i].contact_email,
         is_active |-> t[i].is_active]] :
     t \in TablesOf([name : names, date_of_birth : births,
                     insurance_id : insurances, primary_provider : provs,
                     contact_phone : phones, contact_email : emails,
                     is_active : actives], n)}

ClaimTables(totals, services, submissions, processings, n) ==
    {[i \in 1..Len(t) |->
        [claim_id |-> ClaimId(i),
         claim_total_amount |-> t[i].claim_total_amount,
         service_date |-> t[i].service_date,
         submission_date |-> t[i].submission_date,
         processing_date |-> t[i].processing_date]] :
     t \in TablesOf([claim_total_amount : totals, service_date : services,
                     submission_date : submissions,
                     processing_date : processings], n)}

LineItemTables(claimIds, amounts, n) ==
    TablesOf([claim_id : claimIds, line_item_amount : amounts], n)

ProviderTables(expiries, actives, n) ==
    {[i \in 1..Len(t) |->
        [provider_id |-> ProviderId(i),
         license_expiry_date |-> t[i].license_expiry_date,
         is_active |-> t[i].is_active]] :
     t \in TablesOf([license_expiry_date : expiries, is_active : actives], n)}

\* The checker after __init__, before run_all_checks is called.
InitChecker ==
    /\ quality_audit_log = <<>>
    /\ connection = "None"
    /\ pc = "connect"
    /\ check = 0
    /\ results = <<>>
    /\ row = 0
    /\ checks = <<>>
    /\ report = NULL
    /\ outcome = "running"
    /\ trace = <<>>

\* Bounds of the datasets
RunPatients == 2
RunRows == 1
CompletenessRows == 1
AmountClaims == 1
AmountItems == 2
MaxAmount == 2
TemporalRows == 1
DuplicateRows == 3
MaxDate == 3

Present == {<<"x">>}
Optional == {NULL} \cup Present
Names == {<<"Ann">>, <<"Bob">>}
Dates == {<<d>> : d \in 1..MaxDate}

\* The whole run.  Up to RunPatients patients of one name and birth date,
\* with or without an insurance id; up to RunRows claims, each clean, with a
\* wrong total or submitted before the service; up to RunRows providers
\* whose licence has expired.
Init ==
    /\ InitChecker
    /\ patient_records \in
          PatientTables({<<"Ann">>}, {<<1>>}, Optional, Present, Present, Present,
                        {TRUE}, RunPatients)
    /\ claims \in
          {t \in ClaimTables({<<0>>, <<Tolerance + 1>>}, {<<MaxDate>>},
                             {<<1>>, <<MaxDate>>}, {NULL}, RunRows) :
              \A i \in 1..Len(t) :
                  t[i].claim_total_amount = <<0>> \/ t[i].submission_date = <<MaxDate>>}
    /\ claims_line_items = <<>>
    /\ providers \in ProviderTables({<<1>>}, {TRUE}, RunRows)
    /\ current_date = MaxDate

Spec == Init /\ [][Next]_vars

\* The completeness rule: every combination of missing columns.
InitCompleteness ==
    /\ InitChecker
    /\ patient_records \in
          PatientTables({NULL, <<"Ann">>}, {NULL, <<1>>}, Optional, Optional,
                        Optional, Optional, BOOLEAN, CompletenessRows)
    /\ claims = <<>>
    /\ claims_line_items = <<>>
    /\ providers = <<>>
    /\ current_date = MaxDate

SpecCompleteness == InitCompleteness /\ [][Next]_vars

\* The amount rule: totals and line items around the tolerance and the
\* threshold of CRITICAL.
LineAmounts == {NULL} \cup {<<a>> : a \in ((-MaxAmount)..MaxAmount) \ {0}}
ClaimTotals == {NULL, <<0>>, <<Tolerance + 1>>, <<CriticalThreshold>>}

InitAmounts ==
    /\ InitChecker
    /\ patient_records = <<>>
    /\ claims \in ClaimTables(ClaimTotals, {<<1>>}, {<<1>>}, {NULL}, AmountClaims)
    /\ claims_line_items \in
          LineItemTables({ClaimId(i) : i \in 1..AmountClaims}, LineAmounts,
                         AmountItems)
    /\ providers = <<>>
    /\ current_date = MaxDate

SpecAmounts == InitAmounts /\ [][Next]_vars

\* The temporal rule: every combination of the three dates, NULL included.
InitTemporal ==
    /\ InitChecker
    /\ patient_records = <<>>
    /\ claims \in
          ClaimTables({<<0>>}, {NULL} \cup Dates, {NULL} \cup Dates,
                      {NULL} \cup Dates, TemporalRows)
    /\ claims_line_items = <<>>
    /\ providers = <<>>
    /\ current_date = MaxDate

SpecTemporal == InitTemporal /\ [][Next]_vars

\* The duplicate rule: names and birth dates, NULL included, active or not.
InitDuplicates ==
    /\ InitChecker
    /\ patient_records \in
          PatientTables({NULL} \cup Names, {NULL, <<1>>, <<MaxDate>>}, Present,
                        Present, Present, Present, BOOLEAN, DuplicateRows)
    /\ claims = <<>>
    /\ claims_line_items = <<>>
    /\ providers = <<>>
    /\ current_date = MaxDate

SpecDuplicates == InitDuplicates /\ [][Next]_vars

----------------------------------------------------------------------------
(* Properties of a run *)

Events == {trace[i] : i \in 1..Len(trace)}

Connected == trace # <<>> /\ trace[1].op = "connect" /\ trace[1].ok
RunEnded == pc = "done"

\* The order the specification registers the rules in.
RegistrationOrder ==
    <<"patient_completeness", "claims_discrepancies", "temporal_anomalies",
      "duplicate_records", "provider_credentials">>

ReportKeys == {report[1].checks[i].key : i \in 1..Len(report[1].checks)}

\* C1: when the query of one check fails, the other four checks are still
\* executed and all of them are entries of the checks mapping of the Report
\* the run returns, whichever check failed.
C1_OtherChecksStillRun ==
    \A e \in Events :
        (RunEnded /\ e.op = "query" /\ ~e.ok) =>
            /\ report # NULL
            /\ \A k \in 1..Len(RegistrationOrder) :
                  RegistrationOrder[k] # e.check =>
                      /\ \E q \in Events : q.op = "query" /\ q.check = RegistrationOrder[k]
                      /\ RegistrationOrder[k] \in ReportKeys

\* C2: when connect succeeds the connection is closed exactly once, at the
\* end of the run and not before, on every exit path; every query and every
\* audit write is made on the open connection; when connect fails the run
\* ends with no query and no audit write made.
C2_ConnectionLifetime ==
    /\ \A i \in 1..Len(trace) :
          /\ trace[i].op \in {"query", "insert", "rollback"} => trace[i].open
          /\ trace[i].op = "close" => (RunEnded /\ i = Len(trace) /\ trace[i].open)
          /\ trace[i].op = "connect" => i = 1
    /\ (RunEnded /\ Connected) =>
          /\ connection = "closed"
          /\ trace[Len(trace)].op = "close"
          /\ outcome \in {"returned", "raised"}
    /\ ~RunEnded => connection # "closed"
    /\ (trace # <<>> /\ ~Connected) =>
          /\ RunEnded
          /\ outcome = "raised"
          /\ connection = "None"
          /\ Len(trace) = 1
          /\ quality_audit_log = <<>>

\* A run that connected, lost an audit write, went on, and then ended with a
\* failed query: closed all the same.
C2_Witness ==
    /\ RunEnded
    /\ Connected
    /\ outcome = "raised"
    /\ connection = "closed"
    /\ \E e \in Events : e.op = "insert" /\ ~e.ok
    /\ \E e \in Events : e.op = "query" /\ ~e.ok

\* C3: a failed audit write never aborts the enclosing check: after every
\* failed INSERT the check goes on and returns its result.
C3_FailedWriteNeverAborts ==
    \A i \in 1..Len(trace) :
        (RunEnded /\ trace[i].op = "insert" /\ ~trace[i].ok) =>
            \E j \in (i + 1)..Len(trace) :
                trace[j].op = "return" /\ trace[j].check = trace[i].check

RECURSIVE SumOf(_, _)
SumOf(f, S) ==
    IF S = {} THEN 0
    ELSE LET x == CHOOSE y \in S : TRUE IN f[x] + SumOf(f, S \ {x})

\* C4: in every Report the run returns, total_issues_found is the sum of
\* issues_found over the entries of checks, checks_performed is the number of
\* entries, and status is PASS exactly when the sum is 0 and FAIL exactly when
\* it is at least 1.
C4_SummaryIsRecomputable ==
    report # NULL =>
        LET r == report[1]
            total == SumOf([i \in 1..Len(r.checks) |-> r.checks[i].value.issues_found],
                           1..Len(r.checks))
        IN  /\ r.summary.total_issues_found = total
            /\ r.summary.checks_performed = Len(r.checks)
            /\ r.summary.status \in {"PASS", "FAIL"}
            /\ r.summary.status = "PASS" <=> total = 0
            /\ r.summary.status = "FAIL" <=> total >= 1

\* A Report whose only finding is a single one: the least sum that is FAIL.
C4_Witness ==
    /\ report # NULL
    /\ report[1].summary.total_issues_found = 1
    /\ report[1].summary.status = "FAIL"

Position(key) == CHOOSE k \in 1..Len(RegistrationOrder) : RegistrationOrder[k] = key

\* The check_type each rule writes to the audit table.
CheckTypeOf(key) ==
    CASE key = "patient_completeness" -> "completeness_check"
      [] key = "claims_discrepancies" -> "discrepancy_check"
      [] key = "temporal_anomalies" -> "temporal_check"
      [] key = "duplicate_records" -> "duplicate_check"
      [] key = "provider_credentials" -> "credential_check"

Step(op) == CASE op = "query" -> 1 [] op \in {"insert", "rollback"} -> 2 [] op = "return" -> 3


\* C5: the five checks run one at a time in the order completeness, amount
\* reconciliation, temporal, duplicates, credentials: the query and the audit
\* writes of a check are over before the query of the next check starts, and
\* the entries of the checks mapping are in that order.
C5_FixedSequentialOrder ==
    \* From one event of the run to the next: after connect, the query of
    \* the first check; after a return, and only then, the query of the next
    \* check; otherwise the same check, a step further on.
    /\ \A i \in 1..(Len(trace) - 1) :
          LET a == trace[i]
              b == trace[i + 1]
          IN  IF a.op = "connect"
                 THEN b.op = "query" /\ b.check = RegistrationOrder[1]
              ELSE IF b.op = "close"
                 THEN TRUE
              ELSE IF a.op = "return" \/ b.op = "query"
                 THEN /\ a.op = "return"
                      /\ b.op = "query"
                      /\ Position(b.check) = Position(a.check) + 1
              ELSE /\ b.check = a.check
                   /\ Step(a.op) <= Step(b.op)
    /\ \A i \in 1..Len(trace) :
          trace[i].op = "insert" =>
              trace[i].issue[1].check_type = CheckTypeOf(trace[i].check)
    /\ \A i \in 1..Len(checks) : checks[i].key = RegistrationOrder[i]
    /\ report # NULL =>
          /\ Len(report[1].checks) = Len(RegistrationOrder)
          /\ \A i \in 1..Len(RegistrationOrder) :
                /\ report[1].checks[i].key = RegistrationOrder[i]
                /\ \E e \in Events :
                      e.op = "return" /\ e.check = RegistrationOrder[i]

\* A returned Report with an audit write made by the first check and one made
\* by the last.
C5_Witness ==
    /\ report # NULL
    /\ \E e \in Events : e.op = "insert" /\ e.check = "patient_completeness"
    /\ \E e \in Events : e.op = "insert" /\ e.check = "provider_credentials"

\* The audit writes the run attempted, and those a check attempted, in the
\* order they were attempted.
Inserts == SelectSeq(trace, LAMBDA e : e.op = "insert")
AttemptsIn(inserts, key) == SelectSeq(inserts, LAMBDA e : e.check = key)
Attempts(key) == AttemptsIn(Inserts, key)

\* The audit entries of a check that were committed, in the table's order.
Persisted(key) == SelectSeq(quality_audit_log, LAMBDA a : a.check_type = CheckTypeOf(key))

\* The record a finding is filed under.
FindingId(key, r) ==
    CASE key = "patient_completeness" -> r.patient_id
      [] key = "claims_discrepancies" -> r.claim_id
      [] key = "temporal_anomalies" -> r.claim_id
      [] key = "duplicate_records" -> r.patient_ids[1]
      [] key = "provider_credentials" -> r.provider_id

\* attempts files the first Len(attempts) findings, one write each, in order
WritesFollow(key, attempts, findings) ==
    /\ Len(attempts) <= Len(findings)
    /\ \A j \in 1..Len(attempts) :
          attempts[j].issue[1].record_id = FindingId(key, findings[j])

\* C6: a check attempts one audit write per finding, in the order its query
\* produced the findings, none batched, reordered or dropped as a duplicate,
\* and all of them before it returns its result; when every write succeeds
\* the audit entries the check appended are its findings, in order, as many
\* as its issues_found.
C6_OneWritePerFindingInOrder ==
    LET inserts == Inserts IN
    /\ \A i \in 1..Len(checks) :
          LET key == checks[i].key
              findings == checks[i].value.details
              attempts == AttemptsIn(inserts, key)
          IN  /\ Len(attempts) = Len(findings)
              /\ Len(attempts) = checks[i].value.issues_found
              /\ WritesFollow(key, attempts, findings)
              /\ LET returned == CHOOSE n \in 1..Len(trace) :
                                     trace[n].op = "return" /\ trace[n].check = key
                 IN  \A m \in 1..Len(trace) :
                         (trace[m].op = "insert" /\ trace[m].check = key) => m < returned
              /\ (\A j \in 1..Len(attempts) : attempts[j].ok) =>
                    /\ Persisted(key) = [j \in 1..Len(attempts) |-> attempts[j].issue[1]]
                    /\ Len(Persisted(key)) = checks[i].value.issues_found
    /\ pc = "log" =>
          LET attempts == AttemptsIn(inserts, CheckKeys[check])
          IN  /\ Len(attempts) = row - 1
              /\ WritesFollow(CheckKeys[check], attempts, results)
    /\ LET done == SelectSeq(inserts, LAMBDA e : e.ok)
       IN  quality_audit_log = [j \in 1..Len(done) |-> done[j].issue[1]]

\* A check that returned two findings, both written.
C6_Witness ==
    \E i \in 1..Len(checks) :
        /\ checks[i].value.issues_found = 2
        /\ Len(Persisted(checks[i].key)) = 2
        /\ Persisted(checks[i].key)[1].record_id # Persisted(checks[i].key)[2].record_id

----------------------------------------------------------------------------
(* Properties of the rules *)

\* What the query of a check returned, in a one-element sequence; <<>> when
\* the check has not got that far.
ResultsOf(key) ==
    IF pc = "log" /\ CheckKeys[check] = key THEN <<results>>
    ELSE IF \E i \in 1..Len(checks) : checks[i].key = key
        THEN <<checks[CHOOSE i \in 1..Len(checks) : checks[i].key = key].value.details>>
    ELSE <<>>

\* The arguments of the audit writes a check attempted.
IssuesOf(key) == {e.issue[1] : e \in {x \in Events : x.op = "insert" /\ x.check = key}}

\* date a is present and before the present date b
Before(a, b) == a # NULL /\ b # NULL /\ a[1] < b[1]

SubmissionBeforeService(c) == Before(c.submission_date, c.service_date)
ProcessingBeforeSubmission(c) ==
    c.processing_date # NULL /\ Before(c.processing_date, c.submission_date)

ClaimOf(id) == CHOOSE c \in Rows(claims) : c.claim_id = id

\* C7: the temporal check flags a claim exactly when submission is before
\* service, or processing is present and before submission; a flagged claim
\* gets one label, 'Submission before service' whenever submission is before
\* service (also when processing is before submission as well), otherwise
\* 'Processing before submission'; a claim with no processing date whose
\* submission is not before service is never flagged; severity is HIGH.
C7_TemporalRule ==
    /\ ResultsOf("temporal_anomalies") # <<>> =>
          LET found == ResultsOf("temporal_anomalies")[1]
          IN  /\ \A c \in Rows(claims) :
                    /\ (\E i \in 1..Len(found) : found[i].claim_id = c.claim_id)
                          <=> (SubmissionBeforeService(c) \/ ProcessingBeforeSubmission(c))
                    /\ (c.processing_date = NULL /\ ~SubmissionBeforeService(c)) =>
                          \A i \in 1..Len(found) : found[i].claim_id # c.claim_id
              /\ \A i, j \in 1..Len(found) :
                    found[i].claim_id = found[j].claim_id => i = j
              /\ \A i \in 1..Len(found) :
                    found[i].anomaly_type =
                        IF SubmissionBeforeService(ClaimOf(found[i].claim_id))
                            THEN <<"Submission before service">>
                            ELSE <<"Processing before submission">>
    /\ \A a \in IssuesOf("temporal_anomalies") :
          /\ a.issue_description =
                IF SubmissionBeforeService(ClaimOf(a.record_id))
                    THEN "Submission before service"
                    ELSE "Processing before submission"
          /\ a.severity = "HIGH"

\* A claim that breaks both orderings, written with the first label.
C7_Witness ==
    \E a \in IssuesOf("temporal_anomalies") :
        /\ SubmissionBeforeService(ClaimOf(a.record_id))
        /\ ProcessingBeforeSubmission(ClaimOf(a.record_id))
        /\ a.issue_description = "Submission before service"

\* The order the completeness check looks at the fields in.
FieldOrder ==
    <<"name", "date_of_birth", "insurance_id", "primary_provider", "contact_info">>

\* The missing-field set of a patient record.
MissingSet(p) ==
    {f \in {"name", "date_of_birth", "insurance_id", "primary_provider"} : p[f] = NULL}
        \cup (IF p.contact_phone = NULL /\ p.contact_email = NULL
                THEN {"contact_info"} ELSE {})

MissingList(p) == SelectSeq(FieldOrder, LAMBDA f : f \in MissingSet(p))

PatientOf(id) == CHOOSE p \in Rows(patient_records) : p.patient_id = id

\* C8: the completeness check flags an active patient record exactly when its
\* missing-field set is not empty: each of name, date_of_birth, insurance_id,
\* primary_provider that is null, plus contact_info only when contact_phone
\* and contact_email are both null; severity is HIGH when the set has more
\* than 2 members and MEDIUM when it has 1 or 2; the description lists the
\* members in the fixed field order.
C8_CompletenessRule ==
    /\ ResultsOf("patient_completeness") # <<>> =>
          LET found == ResultsOf("patient_completeness")[1]
          IN  /\ \A p \in Rows(patient_records) :
                    (\E i \in 1..Len(found) : found[i].patient_id = p.patient_id)
                        <=> (p.is_active /\ MissingSet(p) # {})
              /\ \A i, j \in 1..Len(found) :
                    found[i].patient_id = found[j].patient_id => i = j
              /\ \A i \in 1..Len(found) :
                    found[i].missing_fields = MissingList(PatientOf(found[i].patient_id))
    /\ \A a \in IssuesOf("patient_completeness") :
          LET p == PatientOf(a.record_id)
              n == Cardinality(MissingSet(p))
          IN  /\ n >= 1
              /\ n > 2 => a.severity = "HIGH"
              /\ n \in {1, 2} => a.severity = "MEDIUM"
              /\ a.issue_description = "Missing fields: " \o Join(MissingList(p), ", ")

\* A record missing exactly three fields, contact_info (both contacts null)
\* among them, written as HIGH.
C8_Witness ==
    \E a \in IssuesOf("patient_completeness") :
        /\ Cardinality(MissingSet(PatientOf(a.record_id))) = 3
        /\ "contact_info" \in MissingSet(PatientOf(a.record_id))
        /\ a.severity = "HIGH"

\* The sum of the line items of a claim, 0 when it has none.
LineItemSum(c) ==
    LET mine == {i \in 1..Len(claims_line_items) :
                    /\ claims_line_items[i].claim_id = c.claim_id
                    /\ claims_line_items[i].line_item_amount # NULL}
    IN  SumOf([i \in mine |-> claims_line_items[i].line_item_amount[1]], mine)

\* The absolute difference between the stated total and the line items.
Difference(c) == Abs(c.claim_total_amount[1] - LineItemSum(c))

Discrepant(c) == c.claim_total_amount # NULL /\ Difference(c) > Tolerance

\* The part of C9 that is not about a stated total of 0.
C9_FlagsAndSeverity ==
    /\ ResultsOf("claims_discrepancies") # <<>> =>
          LET found == ResultsOf("claims_discrepancies")[1]
          IN  /\ \A c \in Rows(claims) :
                    (\E i \in 1..Len(found) : found[i].claim_id = c.claim_id)
                        <=> Discrepant(c)
              /\ \A i, j \in 1..Len(found) :
                    found[i].claim_id = found[j].claim_id => i = j
              /\ \A i \in 1..Len(found) :
                    /\ found[i].discrepancy_amount = Difference(ClaimOf(found[i].claim_id))
                    /\ found[i].calculated_total = LineItemSum(ClaimOf(found[i].claim_id))
    /\ \A a \in IssuesOf("claims_discrepancies") :
          LET d == Difference(ClaimOf(a.record_id))
          IN  /\ d > Tolerance
              /\ d > CriticalThreshold => a.severity = "CRITICAL"
              /\ d <= CriticalThreshold => a.severity = "HIGH"

\* claim c is in the result of the amount query, with a null percentage
FlaggedWithNullPercentage(c) ==
    LET found == ResultsOf("claims_discrepancies")[1]
    IN  \E i \in 1..Len(found) :
            /\ found[i].claim_id = c.claim_id
            /\ found[i].discrepancy_percentage = NULL

\* C9 as claimed: the amount check flags a claim exactly when the absolute
\* difference between its stated total and the sum of its line items is more
\* than 0.01; a flagged claim is CRITICAL when the difference is more than
\* 1000 and HIGH otherwise; a claim whose stated total is 0 with a nonzero
\* line-item sum is flagged, with a null percentage.
C9_AsClaimed ==
    /\ C9_FlagsAndSeverity
    /\ ResultsOf("claims_discrepancies") # <<>> =>
          \A c \in Rows(claims) :
              (c.claim_total_amount = <<0>> /\ LineItemSum(c) # 0) =>
                  FlaggedWithNullPercentage(c)

\* C9 amended: as claimed, but a claim whose stated total is 0 is flagged,
\* with a null percentage, when its line-item sum is more than 0.01 away from
\* 0; a sum of exactly 0.01 or -0.01 is within the tolerance and not flagged.
C9_AmountRule ==
    /\ C9_FlagsAndSeverity
    /\ ResultsOf("claims_discrepancies") # <<>> =>
          LET found == ResultsOf("claims_discrepancies")[1]
          IN  \A c \in Rows(claims) :
                  c.claim_total_amount = <<0>> =>
                      /\ Abs(LineItemSum(c)) > Tolerance => FlaggedWithNullPercentage(c)
                      /\ Abs(LineItemSum(c)) <= Tolerance =>
                            \A i \in 1..Len(found) : found[i].claim_id # c.claim_id

\* A claim of total 0 whose line items sum to 0.02, flagged with a null
\* percentage and written as HIGH, and the check returned.
C9_Witness ==
    /\ \E i \in 1..Len(checks) :
          checks[i].key = "claims_discrepancies" /\ checks[i].value.issues_found = 1
    /\ \E a \in IssuesOf("claims_discrepancies") :
          LET c == ClaimOf(a.record_id)
          IN  /\ c.claim_total_amount = <<0>>
              /\ LineItemSum(c) = Tolerance + 1
              /\ FlaggedWithNullPercentage(c)
              /\ a.severity = "HIGH"

\* The groups of active patient records that have a name and a birth date
\* and share both, as sets of patient ids; only groups of two or more.
DuplicateGroups ==
    LET keyed == {p \in Rows(patient_records) :
                     p.is_active /\ p.name # NULL /\ p.date_of_birth # NULL}
        groupOf(p) == {q.patient_id : q \in {x \in keyed :
                          x.name = p.name /\ x.date_of_birth = p.date_of_birth}}
    IN  {g \in {groupOf(p) : p \in keyed} : Cardinality(g) >= 2}

IdsOf(r) == {r.patient_ids[i] : i \in 1..Len(r.patient_ids)}

\* C10: the duplicate check produces one finding, and one audit write, per
\* group of two or more active patient records sharing name and birth date,
\* never one per record: duplicate_count is the size of the group, the
\* description lists every member id, record_id is a member of the group,
\* severity is MEDIUM; total_duplicates is the sum of the group sizes and
\* issues_found the number of groups.
C10_DuplicateRule ==
    /\ ResultsOf("duplicate_records") # <<>> =>
          LET found == ResultsOf("duplicate_records")[1]
          IN  /\ Len(found) = Cardinality(DuplicateGroups)
              /\ \A g \in DuplicateGroups :
                    \E i \in 1..Len(found) :
                        /\ IdsOf(found[i]) = g
                        /\ Len(found[i].patient_ids) = Cardinality(g)
                        /\ found[i].duplicate_count = Cardinality(g)
              /\ \A i \in 1..Len(found) : IdsOf(found[i]) \in DuplicateGroups
    /\ \A a \in IssuesOf("duplicate_records") :
          \E g \in DuplicateGroups :
              /\ a.record_id \in g
              /\ \E o \in Orderings(g) :
                    a.issue_description = "Duplicate patients found: " \o Join(o, ", ")
              /\ a.severity = "MEDIUM"
    /\ \A i \in 1..Len(checks) :
          checks[i].key = "duplicate_records" =>
              /\ checks[i].value.issues_found = Cardinality(DuplicateGroups)
              /\ checks[i].value.total_duplicates = Cardinality(UNION DuplicateGroups)
              /\ Len(Attempts("duplicate_records")) = Cardinality(DuplicateGroups)
              /\ \A g \in DuplicateGroups :
                    Cardinality({a \in IssuesOf("duplicate_records") : a.record_id \in g}) = 1

\* Three active records of one name and birth date: one finding of count 3,
\* one audit write, total_duplicates 3.
C10_Witness ==
    /\ \E g \in DuplicateGroups : Cardinality(g) = 3
    /\ \E i \in 1..Len(checks) :
          /\ checks[i].key = "duplicate_records"
          /\ checks[i].value.issues_found = 1
          /\ checks[i].value.total_duplicates = 3
          /\ checks[i].value.details[1].duplicate_count = 3
    /\ Len(Attempts("duplicate_records")) = 1

====
